---- MODULE Spec2Model ----
(***************************************************************************)
(* Admin console client: session token and request layer (lib/api.ts),     *)
(* debounced device search, device selection and location-log loading      *)
(* (ui/App.tsx), and the Leaflet map view (ui/MapPreview.tsx).             *)
(* Every React event handler, promise continuation and effect run is one   *)
(* atomic action; state updates and the effects they trigger are folded    *)
(* into the action of the handler that caused them.                        *)
(***************************************************************************)
EXTENDS Integers, Sequences, FiniteSets, TLC

\* ---------------------------------------------------------------- values
\* JavaScript null / undefined, and a present value.
Null == <<>>
Some(x) == <<x>>

\* JavaScript truthiness of a string | null value.
Truthy(o) == o # Null /\ o[1] # ""

\* ---------------------------------------------------------------- bounds
\* Calls in flight at once: load(), loadLocationLogs(), onLogin/onChangePassword.
MaxLoads == 2
MaxFetches == 2
MaxAuthReqs == 1
\* load() calls in flight at once while the search inputs are edited (DebounceSpec).
MaxTypingLoads == 1
\* load() and onLogin/onChangePassword calls in flight at once in SessionSpec.
MaxSessionCalls == 2
\* Time units that pass in one step of the clock.
TickUnits == 175

\* setTimeout(..., 350)
DebounceDelay == 350

\* ------------------------------------------------------- server-side data
\* Tokens a login and a changePassword response may carry (resp.token: string).
LoginTokens == {"", "t1"}
PasswordTokens == {"", "t2"}

D1 == [deviceId |-> "d1",
       lastLocation |-> Some([lat |-> 1, lng |-> 2,
                              address |-> Some("home"), timestamp |-> Some("T0")])]
D2 == [deviceId |-> "d2", lastLocation |-> Null]

A1 == [_id |-> "a1", deviceId |-> "d1", lat |-> 0, lng |-> 5,
       address |-> Null, timestamp |-> "T1"]
A2 == [_id |-> "a2", deviceId |-> "d1", lat |-> 3, lng |-> 4,
       address |-> Some("work"), timestamp |-> "T2"]
B1 == [_id |-> "b1", deviceId |-> "d2", lat |-> 7, lng |-> 8,
       address |-> Null, timestamp |-> "T3"]

\* Bodies the server may return for GET /devices/{id}/logs.
LogResponses(deviceId) ==
  IF deviceId = "d1" THEN {<<>>, <<A1, A2>>} ELSE {<<>>, <<B1>>}

\* Body the server returns for GET /devices?q&since&until.
ServerDevices(params) ==
  IF params.q = "" THEN <<D1, D2>> ELSE <<D1>>

ServerSummary == [total |-> 2, online |-> 1, offline |-> 1]

\* Bearer-token auth except login: a request without the header is rejected.
ServerMayAccept(auth) == auth # Null
RejectMessage(auth) == IF auth = Null THEN "HTTP 401" ELSE "HTTP 500"

\* Values of the search inputs.
QTexts == {"", "a"}
Dates == {"", "2024-01-02"}

\* ------------------------------------------------------------ lib/api.ts
StorageKey == "adminToken"

getItem(store, k) == store[k]
setItem(store, k, v) == [store EXCEPT ![k] = Some(v)]
removeItem(store, k) == [store EXCEPT ![k] = Null]

getToken(store) == getItem(store, StorageKey)

setToken_KeepOnNull(store, tok) ==
  IF ~Truthy(tok) THEN store ELSE setItem(store, StorageKey, tok[1])

setToken(store, tok) ==
  IF ~Truthy(tok) THEN removeItem(store, StorageKey)
  ELSE setItem(store, StorageKey, tok[1])

\* request() setting the header whether or not a token is stored.
AuthHeader_Always(store) ==
  Some("Bearer " \o (IF getToken(store) = Null THEN "null" ELSE getToken(store)[1]))

\* request(): the authorization header built from the stored token.
AuthHeader(store) ==
  LET t == getToken(store) IN
  IF Truthy(t) THEN Some("Bearer " \o t[1]) ELSE Null

\* Status and body text of the responses fetch() may deliver for
\* GET /devices/{id}/logs.
Statuses == {200, 401, 500}

Bodies(deviceId) ==
  {"", "{}", "{\"error\":\"denied\"}", "{\"error\":\"\"}", "<html>Bad Gateway</html>",
   "{\"logs\":[]}",
   IF deviceId = "d1" THEN "{\"logs\":[a1,a2]}" ELSE "{\"logs\":[b1]}"}

HttpResponses(deviceId) == [status : Statuses, text : Bodies(deviceId)]

\* res.ok
ResOk(res) == res.status \in 200..299

\* JSON.parse(text): the value (its error and logs members, when it has them)
\* or a SyntaxError thrown.
JSONParse(text) ==
  CASE text = "{}" -> [thrown |-> FALSE, error |-> Null, logs |-> Null]
    [] text = "{\"error\":\"denied\"}" ->
         [thrown |-> FALSE, error |-> Some("denied"), logs |-> Null]
    [] text = "{\"error\":\"\"}" -> [thrown |-> FALSE, error |-> Some(""), logs |-> Null]
    [] text = "{\"logs\":[]}" -> [thrown |-> FALSE, error |-> Null, logs |-> Some(<<>>)]
    [] text = "{\"logs\":[a1,a2]}" ->
         [thrown |-> FALSE, error |-> Null, logs |-> Some(<<A1, A2>>)]
    [] text = "{\"logs\":[b1]}" -> [thrown |-> FALSE, error |-> Null, logs |-> Some(<<B1>>)]
    [] OTHER -> [thrown |-> TRUE, error |-> Null, logs |-> Null]

SyntaxErrorMessage == "Unexpected token < in JSON at position 0"

\* request() from the response on: text ? JSON.parse(text) : null, then
\* throw new Error(data?.error || `HTTP ${res.status}`) unless res.ok.
request(res) ==
  LET parsed == IF res.text # "" THEN JSONParse(res.text)
                ELSE [thrown |-> FALSE, error |-> Null, logs |-> Null]
  IN IF parsed.thrown
     THEN [rejected |-> TRUE, message |-> SyntaxErrorMessage, data |-> Null]
     ELSE IF ~ResOk(res)
     THEN [rejected |-> TRUE,
           message |-> IF Truthy(parsed.error) THEN parsed.error[1]
                       ELSE "HTTP " \o ToString(res.status),
           data |-> Null]
     ELSE [rejected |-> FALSE, message |-> "",
           data |-> IF res.text = "" THEN Null
                    ELSE Some([error |-> parsed.error, logs |-> parsed.logs])]

\* ------------------------------------------------------------ ui/App.tsx
VARIABLES
  storage,           \* localStorage
  token,             \* useState(getToken())
  error,
  summary,
  q, since, until,
  devices,
  selected,
  locationLogs,
  selectedLocation,
  loadingLogs,
  loads,             \* load() calls in flight, oldest first
  fetches,           \* loadLocationLogs() calls in flight, oldest first
  authReqs,          \* onLogin / onChangePassword calls in flight
  timers,            \* pending setTimeout callbacks of the debounce effect
  last,              \* the step taken last (history)
  view               \* the mounted <MapPreview/>: its refs and what Leaflet shows

vars == <<storage, token, error, summary, q, since, until, devices, selected,
          locationLogs, selectedLocation, loadingLogs, loads, fetches,
          authReqs, timers, last, view>>

authed == Truthy(token)

\* ------------------------------------------------- what the map is given
\* a || b of two optional numbers, and of two optional strings.
OrNumber(a, b) == IF a # Null /\ a[1] # 0 THEN a ELSE b
OrString(a, b) == IF Truthy(a) THEN a ELSE b

\* selectedLocation?.f and selected.lastLocation?.f
LogField(f) == IF selectedLocation = Null THEN Null ELSE Some(selectedLocation[1][f])
LastField(f) ==
  IF selected = Null \/ selected[1].lastLocation = Null THEN Null
  ELSE Some(selected[1].lastLocation[1][f])

\* The props of <MapPreview/> (rendered while a device is selected).
MapProps ==
  [lat |-> OrNumber(LogField("lat"), LastField("lat")),
   lng |-> OrNumber(LogField("lng"), LastField("lng")),
   timestamp |-> OrString(LogField("timestamp"),
                          IF LastField("timestamp") = Null THEN Null
                          ELSE LastField("timestamp")[1]),
   address |-> OrString(IF LogField("address") = Null THEN Null ELSE LogField("address")[1],
                        IF LastField("address") = Null THEN Null
                        ELSE LastField("address")[1])]

\* ------------------------------------------------------ ui/MapPreview.tsx
\* n.toFixed(6) of a whole number of degrees.
ToFixed6(n) == ToString(n) \o ".000000"

\* new Date(props.timestamp).toLocaleString()
ToLocaleString(ts) == "locale(" \o ts \o ")"

\* The refs of a component instance before its effects have run; maps, markers
\* and popups count what the instance created (history).
BlankRefs ==
  [mapRef |-> Null, markerRef |-> Null, popupRef |-> Null,
   maps |-> 0, markers |-> 0, popups |-> 0, deps |-> Null]

\* The mount effect without the mapRef guard.
MountEffect_NoGuard(v) ==
  [v EXCEPT !.mapRef = Some([center |-> <<0, 0>>, zoom |-> 2]),
            !.markerRef = Some([latlng |-> <<0, 0>>, bound |-> FALSE]),
            !.popupRef = Some([content |-> "", open |-> FALSE]),
            !.maps = @ + 1, !.markers = @ + 1, !.popups = @ + 1]

\* The mount effect: L.map(...).setView([0, 0], 2), L.marker([0, 0]), L.popup(),
\* unless mapRef is already set.
MountEffect(v) ==
  IF v.mapRef # Null THEN v
  ELSE [v EXCEPT !.mapRef = Some([center |-> <<0, 0>>, zoom |-> 2]),
                 !.markerRef = Some([latlng |-> <<0, 0>>, bound |-> FALSE]),
                 !.popupRef = Some([content |-> "", open |-> FALSE]),
                 !.maps = @ + 1, !.markers = @ + 1, !.popups = @ + 1]

\* The string the sync effect builds for the popup.
PopupContent(p) ==
  "<div><b>Location</b><br/>" \o ToFixed6(p.lat[1]) \o ", " \o ToFixed6(p.lng[1])
  \o (IF Truthy(p.timestamp)
      THEN "<br/><small>" \o ToLocaleString(p.timestamp[1]) \o "</small>" ELSE "")
  \o (IF Truthy(p.address)
      THEN "<br/><small><i>" \o p.address[1] \o "</i></small>" ELSE "")
  \o "</div>"

\* The sync effect with a truthiness test in place of typeof ... !== "number".
SyncEffect_Falsy(v, p) ==
  IF v.mapRef = Null \/ v.markerRef = Null \/ v.popupRef = Null THEN v
  ELSE IF p.lat = Null \/ p.lng = Null \/ p.lat = Some(0) \/ p.lng = Some(0)
  THEN [v EXCEPT !.mapRef = Some([center |-> <<0, 0>>, zoom |-> 2]),
                 !.markerRef = Some([latlng |-> <<0, 0>>, bound |-> FALSE]),
                 !.popupRef = Some([@[1] EXCEPT !.open = FALSE])]
  ELSE [v EXCEPT !.mapRef = Some([center |-> <<p.lat[1], p.lng[1]>>, zoom |-> 15]),
                 !.markerRef = Some([latlng |-> <<p.lat[1], p.lng[1]>>, bound |-> TRUE]),
                 !.popupRef = Some([content |-> PopupContent(p), open |-> TRUE])]

\* The sync effect for props p: world view, sentinel marker and unbindPopup()
\* when lat or lng is not a number; else setLatLng, setView(ll, 15),
\* setContent, bindPopup(popup).openPopup().
SyncEffect(v, p) ==
  IF v.mapRef = Null \/ v.markerRef = Null \/ v.popupRef = Null THEN v
  ELSE IF p.lat = Null \/ p.lng = Null
  THEN [v EXCEPT !.mapRef = Some([center |-> <<0, 0>>, zoom |-> 2]),
                 !.markerRef = Some([latlng |-> <<0, 0>>, bound |-> FALSE]),
                 !.popupRef = Some([@[1] EXCEPT !.open = FALSE])]
  ELSE [v EXCEPT !.mapRef = Some([center |-> <<p.lat[1], p.lng[1]>>, zoom |-> 15]),
                 !.markerRef = Some([latlng |-> <<p.lat[1], p.lng[1]>>, bound |-> TRUE]),
                 !.popupRef = Some([content |-> PopupContent(p), open |-> TRUE])]

\* Both effects run, in order; deps are the props the sync effect last ran for.
RunEffects(v, p) == [SyncEffect(MountEffect(v), p) EXCEPT !.deps = Some(p)]

\* <MapPreview {...p}/> after a render of its parent: unmounted when it is not
\* rendered, mounted (both effects) when it was not there, and otherwise the
\* sync effect when one of its four deps changed.
Rendered(v, shown, p) ==
  IF ~shown THEN Null
  ELSE IF v = Null THEN Some(RunEffects(BlankRefs, p))
  ELSE IF v[1].deps # Some(p)
  THEN Some([SyncEffect(v[1], p) EXCEPT !.deps = Some(p)])
  ELSE v

\* App renders <MapPreview/> while authed with a device selected.
Render == view' = Rendered(view, authed' /\ selected' # Null, MapProps')

Ev(op) == [op |-> op, dev |-> "", logs |-> <<>>, tok |-> Null,
           flag |-> FALSE, origin |-> "", res |-> Null]


RemoveAt(s, i) == SubSeq(s, 1, i - 1) \o SubSeq(s, i + 1, Len(s))

Max(a, b) == IF a > b THEN a ELSE b

\* The q / since / until a render's load() closes over.
Capture(qv, sv, uv) == [q |-> qv, since |-> sv, until |-> uv]

\* new Date(since).toISOString() of a date-only input value.
ToISO(d) == d \o "T00:00:00.000Z"

\* Arguments load() passes to api.listDevices.
ListParams(c) ==
  [q |-> c.q,
   sinceIso |-> IF c.since # "" THEN Some(ToISO(c.since)) ELSE Null,
   untilIso |-> IF c.until # "" THEN Some(ToISO(c.until)) ELSE Null]

\* load(): first await api.summary().
StartLoad(ls, c, origin, store) ==
  Append(ls, [query |-> c, origin |-> origin, stage |-> "summary",
              auth |-> AuthHeader(store), params |-> Null,
              superseded |-> FALSE])

\* What the caller of load() does with a rejection.
LoadRejected(origin, msg, err) ==
  CASE origin = "mount" -> Some(msg)
    [] origin = "login" -> Some(IF msg # "" THEN msg ELSE "Login failed")
    [] OTHER -> err

\* clearTimeout(t) of the effect's cleanup: t is the timer the previous run set.
ClearTimeout_Leak(ts) == ts

ClearTimeout(ts) == IF ts = <<>> THEN ts ELSE SubSeq(ts, 1, Len(ts) - 1)

\* restarted: the effect run that set this timer cancelled a pending one (history).
NewTimer(c, restarted) ==
  [query |-> c, remaining |-> DebounceDelay, restarted |-> restarted]

\* The debounce effect, run because q, since or until changed.
DebounceEffect(ts, isAuthed, c) ==
  LET cleared == ClearTimeout(ts)
  IN IF ~isAuthed THEN cleared ELSE Append(cleared, NewTimer(c, ts # <<>>))

\* Tokens localStorage may hold when the page is opened.
StoredTokens == {Null, Some("t1")}

\* The effect on [authed]: load() when a render turns authed.
AuthedEffect(ls, wasAuthed, isAuthed, c, store) ==
  IF ~wasAuthed /\ isAuthed THEN StartLoad(ls, c, "mount", store) ELSE ls

\* The page is opened with `store` in localStorage: every useState takes its
\* initial value and the three effects run once.
Mount(store) ==
  [token |-> getToken(store),
   loads |-> AuthedEffect(<<>>, FALSE, Truthy(getToken(store)), Capture("", "", ""), store),
   timers |-> DebounceEffect(<<>>, Truthy(getToken(store)), Capture("", "", ""))]

Init ==
  /\ \E stored \in StoredTokens : storage = [k \in {StorageKey} |-> stored]
  /\ token = Mount(storage).token
  /\ error = Null
  /\ summary = Null
  /\ q = "" /\ since = "" /\ until = ""
  /\ devices = <<>>
  /\ selected = Null
  /\ locationLogs = <<>>
  /\ selectedLocation = Null
  /\ loadingLogs = FALSE
  /\ loads = Mount(storage).loads
  /\ fetches = <<>>
  /\ authReqs = <<>>
  /\ timers = Mount(storage).timers
  /\ last = Ev("init")
  /\ view = Null

\* --------------------------------------------------- login / password / logout
\* onLogin up to the api.login request (the login form shows while not authed).
SubmitLogin ==
  /\ ~authed
  /\ Len(authReqs) < MaxAuthReqs
  /\ error' = Null
  /\ authReqs' = Append(authReqs, [kind |-> "login", auth |-> AuthHeader(storage),
                                   query |-> Capture(q, since, until)])
  /\ last' = Ev("submitLogin")
  /\ UNCHANGED <<storage, token, summary, q, since, until, devices, selected,
                 locationLogs, selectedLocation, loadingLogs, loads, fetches, timers>>
  /\ Render

\* onLogin after api.login resolved: setToken, setTokenState, await load().
ResolveLoginOk(i, tok) ==
  /\ i \in DOMAIN authReqs
  /\ authReqs[i].kind = "login"
  /\ Len(loads) + (IF ~authed /\ tok # "" THEN 2 ELSE 1) <= MaxLoads
  /\ storage' = setToken(storage, Some(tok))
  /\ token' = Some(tok)
  /\ loads' = AuthedEffect(StartLoad(loads, authReqs[i].query, "login", storage'),
                           authed, Truthy(token'), Capture(q, since, until), storage')
  /\ authReqs' = RemoveAt(authReqs, i)
  /\ last' = [Ev("loginOk") EXCEPT !.tok = Some(tok)]
  /\ UNCHANGED <<error, summary, q, since, until, devices, selected,
                 locationLogs, selectedLocation, loadingLogs, fetches, timers>>
  /\ Render

ResolveLoginFail(i) ==
  /\ i \in DOMAIN authReqs
  /\ authReqs[i].kind = "login"
  /\ error' = Some("HTTP 401")
  /\ authReqs' = RemoveAt(authReqs, i)
  /\ last' = Ev("loginFail")
  /\ UNCHANGED <<storage, token, summary, q, since, until, devices, selected,
                 locationLogs, selectedLocation, loadingLogs, loads, fetches, timers>>
  /\ Render

\* onChangePassword up to the api.changePassword request.
SubmitChangePassword ==
  /\ authed
  /\ Len(authReqs) < MaxAuthReqs
  /\ error' = Null
  /\ authReqs' = Append(authReqs, [kind |-> "changePassword",
                                   auth |-> AuthHeader(storage),
                                   query |-> Capture(q, since, until)])
  /\ last' = Ev("submitChangePassword")
  /\ UNCHANGED <<storage, token, summary, q, since, until, devices, selected,
                 locationLogs, selectedLocation, loadingLogs, loads, fetches, timers>>
  /\ Render

\* onChangePassword that updates the token state but does not persist it.
ResolveChangePasswordOk_StateOnly(i, tok) ==
  /\ i \in DOMAIN authReqs
  /\ authReqs[i].kind = "changePassword"
  /\ ServerMayAccept(authReqs[i].auth)
  /\ Len(loads) + (IF ~authed /\ tok # "" THEN 1 ELSE 0) <= MaxLoads
  /\ token' = Some(tok)
  /\ loads' = AuthedEffect(loads, authed, Truthy(token'), Capture(q, since, until),
                           storage)
  /\ authReqs' = RemoveAt(authReqs, i)
  /\ last' = [Ev("changePasswordOk") EXCEPT !.tok = Some(tok)]
  /\ UNCHANGED <<storage, error, summary, q, since, until, devices, selected,
                 locationLogs, selectedLocation, loadingLogs, fetches, timers>>
  /\ Render

\* onChangePassword after api.changePassword resolved: setToken, setTokenState.
ResolveChangePasswordOk(i, tok) ==
  /\ i \in DOMAIN authReqs
  /\ authReqs[i].kind = "changePassword"
  /\ ServerMayAccept(authReqs[i].auth)
  /\ Len(loads) + (IF ~authed /\ tok # "" THEN 1 ELSE 0) <= MaxLoads
  /\ storage' = setToken(storage, Some(tok))
  /\ token' = Some(tok)
  /\ loads' = AuthedEffect(loads, authed, Truthy(token'), Capture(q, since, until),
                           storage')
  /\ authReqs' = RemoveAt(authReqs, i)
  /\ last' = [Ev("changePasswordOk") EXCEPT !.tok = Some(tok)]
  /\ UNCHANGED <<error, summary, q, since, until, devices, selected,
                 locationLogs, selectedLocation, loadingLogs, fetches, timers>>
  /\ Render

\* A catch block of onChangePassword that also ends the session.
ResolveChangePasswordFail_Logout(i) ==
  /\ i \in DOMAIN authReqs
  /\ authReqs[i].kind = "changePassword"
  /\ error' = Some(RejectMessage(authReqs[i].auth))
  /\ storage' = setToken(storage, Null)
  /\ token' = Null
  /\ authReqs' = RemoveAt(authReqs, i)
  /\ last' = Ev("changePasswordFail")
  /\ UNCHANGED <<summary, q, since, until, devices, selected,
                 locationLogs, selectedLocation, loadingLogs, loads, fetches, timers>>
  /\ Render

ResolveChangePasswordFail(i) ==
  /\ i \in DOMAIN authReqs
  /\ authReqs[i].kind = "changePassword"
  /\ error' = Some(RejectMessage(authReqs[i].auth))
  /\ authReqs' = RemoveAt(authReqs, i)
  /\ last' = Ev("changePasswordFail")
  /\ UNCHANGED <<storage, token, summary, q, since, until, devices, selected,
                 locationLogs, selectedLocation, loadingLogs, loads, fetches, timers>>
  /\ Render

\* logout(); the selection effect then takes its else branch (same writes).
Logout ==
  /\ authed
  /\ storage' = setToken(storage, Null)
  /\ token' = Null
  /\ devices' = <<>>
  /\ selected' = Null
  /\ locationLogs' = <<>>
  /\ selectedLocation' = Null
  /\ last' = Ev("logout")
  /\ UNCHANGED <<error, summary, q, since, until, loadingLogs, loads, fetches,
                 authReqs, timers>>
  /\ Render

\* ------------------------------------------------------------ search inputs
InputChanged(qv, sv, uv) ==
  /\ authed
  /\ q' = qv /\ since' = sv /\ until' = uv
  /\ timers' = DebounceEffect(timers, authed, Capture(qv, sv, uv))
  /\ last' = [Ev("input") EXCEPT !.flag = (timers # <<>>)]
  /\ UNCHANGED <<storage, token, error, summary, devices, selected, locationLogs,
                 selectedLocation, loadingLogs, loads, fetches, authReqs>>
  /\ Render

ChangeQ(v) == v # q /\ InputChanged(v, since, until)
ChangeSince(v) == v # since /\ InputChanged(q, v, until)
ChangeUntil(v) == v # until /\ InputChanged(q, since, v)

\* Time passes; a timer that has expired runs before more time passes.
Tick ==
  /\ timers # <<>>
  /\ \A i \in DOMAIN timers : timers[i].remaining > 0
  /\ timers' = [i \in DOMAIN timers |->
                  [timers[i] EXCEPT !.remaining = Max(0, @ - TickUnits)]]
  /\ last' = Ev("tick")
  /\ UNCHANGED <<storage, token, error, summary, q, since, until, devices, selected,
                 locationLogs, selectedLocation, loadingLogs, loads, fetches, authReqs>>
  /\ Render

\* The timeout callback: load().catch(() => {}).
TimerFire(i) ==
  /\ i \in DOMAIN timers
  /\ timers[i].remaining = 0
  /\ Len(loads) < MaxLoads
  /\ loads' = StartLoad(loads, timers[i].query, "debounce", storage)
  /\ timers' = RemoveAt(timers, i)
  /\ last' = [Ev("timerFire") EXCEPT !.flag = timers[i].restarted]
  /\ UNCHANGED <<storage, token, error, summary, q, since, until, devices, selected,
                 locationLogs, selectedLocation, loadingLogs, fetches, authReqs>>
  /\ Render

\* ------------------------------------------------------------------- load()
\* api.summary() resolved: setSummary, then api.listDevices(q, sinceIso, untilIso).
ResolveSummaryOk(i) ==
  /\ i \in DOMAIN loads
  /\ loads[i].stage = "summary"
  /\ ServerMayAccept(loads[i].auth)
  /\ summary' = Some(ServerSummary)
  /\ loads' = [loads EXCEPT ![i] = [@ EXCEPT !.stage = "list",
                                              !.params = Some(ListParams(loads[i].query)),
                                              !.auth = AuthHeader(storage)]]
  /\ last' = [Ev("summaryOk") EXCEPT !.origin = loads[i].origin]
  /\ UNCHANGED <<storage, token, error, q, since, until, devices, selected,
                 locationLogs, selectedLocation, loadingLogs, fetches, authReqs, timers>>
  /\ Render

\* Either request of load() rejected: load() rejects to its caller.
ResolveLoadFail(i) ==
  /\ i \in DOMAIN loads
  /\ error' = LoadRejected(loads[i].origin, RejectMessage(loads[i].auth), error)
  /\ loads' = RemoveAt(loads, i)
  /\ last' = [Ev("loadFail") EXCEPT !.origin = loads[i].origin,
                                    !.flag = (loads[i].stage = "list")]
  /\ UNCHANGED <<storage, token, summary, q, since, until, devices, selected,
                 locationLogs, selectedLocation, loadingLogs, fetches, authReqs, timers>>
  /\ Render

\* api.listDevices resolved: setDevices. Loads issued earlier and still in
\* flight are from now on superseded (history, read by no action).
ResolveListOk(i) ==
  /\ i \in DOMAIN loads
  /\ loads[i].stage = "list"
  /\ ServerMayAccept(loads[i].auth)
  /\ devices' = ServerDevices(loads[i].params[1])
  /\ loads' = RemoveAt([j \in DOMAIN loads |->
                          IF j < i THEN [loads[j] EXCEPT !.superseded = TRUE]
                          ELSE loads[j]], i)
  /\ last' = [Ev("listOk") EXCEPT !.origin = loads[i].origin,
                                  !.flag = loads[i].superseded]
  /\ UNCHANGED <<storage, token, error, summary, q, since, until, selected,
                 locationLogs, selectedLocation, loadingLogs, fetches, authReqs, timers>>
  /\ Render


\* ------------------------------------------------ selection / location logs
\* loadLocationLogs(deviceId) up to the api.getLocationLogs request:
\* setLoadingLogs(true); setSelectedLocation(null); locationLogs is not written.
StartLogs(fs, deviceId, store) ==
  Append(fs, [deviceId |-> deviceId, auth |-> AuthHeader(store)])

\* selectedLocation after the request resolved with logs.
AutoSelect(logs, cur) == IF Len(logs) > 0 THEN Some(logs[1]) ELSE cur

\* loadingLogs after the finally block.
FinallyLoading_TryOnly(rejected, cur) == IF rejected THEN cur ELSE FALSE

FinallyLoading(rejected, cur) == FALSE

\* err.message || "Failed to load location logs"
LogsErrorText(msg) == IF msg # "" THEN msg ELSE "Failed to load location logs"

\* An effect on [selected?.deviceId] that runs after every render.
SelectionChanged_Always(old, d) == TRUE

\* The deps [selected?.deviceId] differ between the render with old selected
\* and the render with d selected.
SelectionChanged(old, d) == old = Null \/ old[1].deviceId # d.deviceId

\* onClick of a device row: setSelected(d); the effect on [selected?.deviceId]
\* runs when the id changed.
Select(k) ==
  /\ authed
  /\ k \in DOMAIN devices
  /\ LET d == devices[k]
         changed == SelectionChanged(selected, d)
     IN /\ selected' = Some(d)
        /\ last' = [Ev("select") EXCEPT !.dev = d.deviceId, !.flag = changed]
        /\ IF ~changed
           THEN UNCHANGED <<locationLogs, selectedLocation, loadingLogs, fetches>>
           ELSE IF d.deviceId # ""
           THEN /\ Len(fetches) < MaxFetches
                /\ loadingLogs' = TRUE
                /\ selectedLocation' = Null
                /\ fetches' = StartLogs(fetches, d.deviceId, storage)
                /\ UNCHANGED locationLogs
           ELSE /\ locationLogs' = <<>>
                /\ selectedLocation' = Null
                /\ UNCHANGED <<loadingLogs, fetches>>
  /\ UNCHANGED <<storage, token, error, summary, q, since, until, devices,
                 loads, authReqs, timers>>
  /\ Render

\* The rest of the try block with logs, then finally; res is the response
\* request() was given, when the step records it (history).
LogsResolved(i, logs, res) ==
  /\ i \in DOMAIN fetches
  /\ locationLogs' = logs
  /\ selectedLocation' = AutoSelect(logs, selectedLocation)
  /\ loadingLogs' = FinallyLoading(FALSE, loadingLogs)
  /\ fetches' = RemoveAt(fetches, i)
  /\ last' = [Ev("logsOk") EXCEPT
                !.dev = fetches[i].deviceId, !.logs = logs, !.res = res,
                !.flag = (selected # Null /\ selected[1].deviceId = fetches[i].deviceId)]
  /\ UNCHANGED <<storage, token, error, summary, q, since, until, devices, selected,
                 loads, authReqs, timers>>
  /\ Render

\* api.getLocationLogs resolved: try block, then finally.
ResolveLogsOk(i, logs) ==
  /\ i \in DOMAIN fetches
  /\ ServerMayAccept(fetches[i].auth)
  /\ logs \in LogResponses(fetches[i].deviceId)
  /\ LogsResolved(i, logs, Null)

\* The catch block for an error with message msg, then finally.
LogsRejected(i, msg, res) ==
  /\ i \in DOMAIN fetches
  /\ error' = Some(LogsErrorText(msg))
  /\ locationLogs' = <<>>
  /\ loadingLogs' = FinallyLoading(TRUE, loadingLogs)
  /\ fetches' = RemoveAt(fetches, i)
  /\ last' = [Ev("logsFail") EXCEPT
                !.dev = fetches[i].deviceId, !.res = res,
                !.flag = (selected # Null /\ selected[1].deviceId = fetches[i].deviceId)]
  /\ UNCHANGED <<storage, token, summary, q, since, until, devices, selected,
                 selectedLocation, loads, authReqs, timers>>
  /\ Render

\* api.getLocationLogs rejected: catch block, then finally.
ResolveLogsFail(i) ==
  /\ i \in DOMAIN fetches
  /\ LogsRejected(i, RejectMessage(fetches[i].auth), Null)

\* const { logs } = null, and logs.length of undefined.
DestructureNull == "Cannot destructure property 'logs' of null"
LengthOfUndefined == "Cannot read properties of undefined (reading 'length')"

\* fetch() delivered res for a getLocationLogs call: the rest of request(),
\* then the rest of loadLocationLogs.
ReceiveLogs(i, res) ==
  /\ i \in DOMAIN fetches
  /\ ResOk(res) => ServerMayAccept(fetches[i].auth)
  /\ LET o == request(res)
         h == Some([response |-> res, outcome |-> o])
     IN IF o.rejected THEN LogsRejected(i, o.message, h)
        ELSE IF o.data = Null THEN LogsRejected(i, DestructureNull, h)
        ELSE IF o.data[1].logs = Null THEN LogsRejected(i, LengthOfUndefined, h)
        ELSE LogsResolved(i, o.data[1].logs[1], h)

\* A log row whose onClick also loads the logs again.
ClickLog_Refetch(k) ==
  /\ authed
  /\ selected # Null
  /\ ~loadingLogs
  /\ k \in DOMAIN locationLogs
  /\ Len(fetches) < MaxFetches
  /\ selectedLocation' = Some(locationLogs[k])
  /\ loadingLogs' = TRUE
  /\ fetches' = StartLogs(fetches, selected[1].deviceId, storage)
  /\ last' = Ev("clickLog")
  /\ UNCHANGED <<storage, token, error, summary, q, since, until, devices, selected,
                 locationLogs, loads, authReqs, timers>>
  /\ Render

\* onClick of a log row (rows render when a device is selected, loading is
\* over and the list is not empty).
ClickLog(k) ==
  /\ authed
  /\ selected # Null
  /\ ~loadingLogs
  /\ k \in DOMAIN locationLogs
  /\ selectedLocation' = Some(locationLogs[k])
  /\ last' = Ev("clickLog")
  /\ UNCHANGED <<storage, token, error, summary, q, since, until, devices, selected,
                 locationLogs, loadingLogs, loads, fetches, authReqs, timers>>
  /\ Render

\* The page is loaded again: localStorage survives, requests and timers of the
\* old page are gone.
Reload ==
  /\ token' = Mount(storage).token
  /\ error' = Null
  /\ summary' = Null
  /\ q' = "" /\ since' = "" /\ until' = ""
  /\ devices' = <<>>
  /\ selected' = Null
  /\ locationLogs' = <<>>
  /\ selectedLocation' = Null
  /\ loadingLogs' = FALSE
  /\ loads' = Mount(storage).loads
  /\ fetches' = <<>>
  /\ authReqs' = <<>>
  /\ timers' = Mount(storage).timers
  /\ last' = Ev("reload")
  /\ UNCHANGED storage
  /\ Render

\* ------------------------------------------- <MapPreview/> under any parent
\* Values a parent may pass as lat / lng, and as timestamp / address.
Coordinates == {Null, Some(0), Some(3)}
Texts == {Null, Some(""), Some("T1")}

PropsGiven ==
  [lat : Coordinates, lng : Coordinates, timestamp : Texts, address : Texts]

\* The parent starts rendering <MapPreview {...p}/>.
MapPreviewMount(p) ==
  /\ view = Null
  /\ view' = Rendered(view, TRUE, p)
  /\ last' = Ev("mapMount")
  /\ UNCHANGED <<storage, token, error, summary, q, since, until, devices, selected,
                 locationLogs, selectedLocation, loadingLogs, loads, fetches,
                 authReqs, timers>>

\* The parent renders it again with props p.
MapPreviewRender(p) ==
  /\ view # Null
  /\ view' = Rendered(view, TRUE, p)
  /\ last' = [Ev("mapRender") EXCEPT !.flag = (view[1].deps # Some(p))]
  /\ UNCHANGED <<storage, token, error, summary, q, since, until, devices, selected,
                 locationLogs, selectedLocation, loadingLogs, loads, fetches,
                 authReqs, timers>>

\* React runs the effects of the mounted instance once more (refs are kept).
MapPreviewRerun ==
  /\ view # Null
  /\ view' = Some(RunEffects(view[1], view[1].deps[1]))
  /\ last' = Ev("mapRerun")
  /\ UNCHANGED <<storage, token, error, summary, q, since, until, devices, selected,
                 locationLogs, selectedLocation, loadingLogs, loads, fetches,
                 authReqs, timers>>

\* The parent stops rendering it.
MapPreviewUnmount ==
  /\ view # Null
  /\ view' = Rendered(view, FALSE, view[1].deps[1])
  /\ last' = Ev("mapUnmount")
  /\ UNCHANGED <<storage, token, error, summary, q, since, until, devices, selected,
                 locationLogs, selectedLocation, loadingLogs, loads, fetches,
                 authReqs, timers>>

AuthNext ==
  \/ SubmitLogin
  \/ \E i \in DOMAIN authReqs, tok \in LoginTokens : ResolveLoginOk(i, tok)
  \/ \E i \in DOMAIN authReqs : ResolveLoginFail(i)
  \/ Logout
  \/ Reload

PasswordNext ==
  \/ SubmitChangePassword
  \/ \E i \in DOMAIN authReqs, tok \in PasswordTokens : ResolveChangePasswordOk(i, tok)
  \/ \E i \in DOMAIN authReqs : ResolveChangePasswordFail(i)

LoadNext ==
  \/ \E i \in DOMAIN loads : ResolveSummaryOk(i)
  \/ \E i \in DOMAIN loads : ResolveLoadFail(i)
  \/ \E i \in DOMAIN loads : ResolveListOk(i)

TimerNext ==
  \/ Tick
  \/ \E i \in DOMAIN timers : TimerFire(i)

InputNext ==
  \/ \E v \in QTexts : ChangeQ(v)
  \/ \E v \in Dates : ChangeSince(v)
  \/ \E v \in Dates : ChangeUntil(v)

SelectNext ==
  \/ \E k \in DOMAIN devices : Select(k)
  \/ \E i \in DOMAIN fetches :
       \E logs \in LogResponses(fetches[i].deviceId) : ResolveLogsOk(i, logs)
  \/ \E i \in DOMAIN fetches : ResolveLogsFail(i)
  \/ \E k \in DOMAIN locationLogs : ClickLog(k)

\* The whole client. The specifications below restrict it to one concern each;
\* every behaviour of a restriction is a behaviour of Spec.
Next == AuthNext \/ PasswordNext \/ LoadNext \/ TimerNext \/ InputNext \/ SelectNext

Spec == Init /\ [][Next]_vars

\* The client restricted to the session: login, password change, logout, reload.
SessionCap == Len(loads') + Len(authReqs') <= MaxSessionCalls

SessionNext ==
  \/ SubmitLogin /\ SessionCap
  \/ \E i \in DOMAIN authReqs, tok \in LoginTokens : ResolveLoginOk(i, tok) /\ SessionCap
  \/ \E i \in DOMAIN authReqs : ResolveLoginFail(i)
  \/ Logout
  \/ Reload
  \/ SubmitChangePassword /\ SessionCap
  \/ \E i \in DOMAIN authReqs, tok \in PasswordTokens :
        ResolveChangePasswordOk(i, tok) /\ SessionCap
  \/ \E i \in DOMAIN authReqs : ResolveChangePasswordFail(i)
  \/ LoadNext
  \/ Tick
  \/ \E i \in DOMAIN timers : TimerFire(i) /\ SessionCap

SessionSpec == Init /\ [][SessionNext]_vars

\* The client of a stored session, restricted to the device search.
SearchNext == Logout \/ Reload \/ LoadNext \/ TimerNext \/ InputNext

SearchSpec == Init /\ [][SearchNext]_vars

\* The client of a stored session, restricted to device selection and location logs.
LogsNext == Logout \/ Reload \/ LoadNext \/ TimerNext \/ SelectNext

LogsSpec == Init /\ [][LogsNext]_vars

\* The device search with at most MaxTypingLoads load() calls in flight.
DebounceNext ==
  \/ Logout
  \/ Reload
  \/ LoadNext
  \/ Tick
  \/ \E i \in DOMAIN timers : TimerFire(i) /\ Len(loads') <= MaxTypingLoads
  \/ InputNext

DebounceSpec == Init /\ [][DebounceNext]_vars

\* Every getLocationLogs request eventually resolves or rejects.
SettleLogs ==
  \E i \in DOMAIN fetches :
     \/ ResolveLogsFail(i)
     \/ \E logs \in LogResponses(fetches[i].deviceId) : ResolveLogsOk(i, logs)

FairLogsSpec == LogsSpec /\ WF_vars(SettleLogs)

\* The session together with device selection: every kind of request the
\* client sends, with at most MaxSessionCalls of them in flight.
ApiCap == Len(loads') + Len(authReqs') + Len(fetches') <= MaxSessionCalls

ApiNext ==
  \/ SubmitLogin /\ ApiCap
  \/ \E i \in DOMAIN authReqs, tok \in LoginTokens : ResolveLoginOk(i, tok) /\ ApiCap
  \/ \E i \in DOMAIN authReqs : ResolveLoginFail(i)
  \/ Logout
  \/ Reload
  \/ SubmitChangePassword /\ ApiCap
  \/ \E i \in DOMAIN authReqs, tok \in PasswordTokens :
        ResolveChangePasswordOk(i, tok) /\ ApiCap
  \/ \E i \in DOMAIN authReqs : ResolveChangePasswordFail(i)
  \/ LoadNext
  \/ \E k \in DOMAIN devices : Select(k) /\ ApiCap
  \/ \E i \in DOMAIN fetches :
       \E logs \in LogResponses(fetches[i].deviceId) : ResolveLogsOk(i, logs)
  \/ \E i \in DOMAIN fetches : ResolveLogsFail(i)

ApiSpec == Init /\ [][ApiNext]_vars

\* Device selection and location logs, with the responses of getLocationLogs
\* taken from the wire.
RequestNext ==
  \/ Logout
  \/ Reload
  \/ LoadNext
  \/ \E k \in DOMAIN devices : Select(k)
  \/ \E i \in DOMAIN fetches :
       \E res \in HttpResponses(fetches[i].deviceId) : ReceiveLogs(i, res)
  \/ \E k \in DOMAIN locationLogs : ClickLog(k)

RequestSpec == Init /\ [][RequestNext]_vars

\* <MapPreview/> alone, given any props by its parent.
MapNext ==
  \/ \E p \in PropsGiven : MapPreviewMount(p)
  \/ \E p \in PropsGiven : MapPreviewRender(p)
  \/ MapPreviewRerun
  \/ MapPreviewUnmount

MapSpec == Init /\ [][MapNext]_vars

\* ===================================================================== claims

\* C1 (as claimed): whatever is shown for the selected device belongs to it:
\* the active log on the map, and the log list once Loading is over, are never
\* those of a device selected before.
C1_NoStaleDevice ==
  selected # Null =>
    /\ selectedLocation # Null =>
         selectedLocation[1].deviceId = selected[1].deviceId
    /\ ~loadingLogs =>
         \A k \in DOMAIN locationLogs :
            locationLogs[k].deviceId = selected[1].deviceId

\* C2 (as claimed): a change of the selected device enters Loading with the log
\* list empty and no log active, and they stay so throughout Loading.
C2_LoadingIsCleared ==
  /\ (last.op = "select" /\ last.flag) => loadingLogs
  /\ loadingLogs => (locationLogs = <<>> /\ selectedLocation = Null)

\* C3 (as claimed): latest-request-wins; a load that a newer load has already
\* answered never writes the device list.
C3_LatestLoadWins ==
  last.op = "listOk" => ~last.flag

\* C4 (as claimed): a burst of input changes ends in exactly one listDevices
\* call; no load started by the debounce timer ends before it issued that call.
C4_OneListCallPerBurst ==
  ~(last.op = "loadFail" /\ last.origin = "debounce" /\ ~last.flag)

\* What a timer set for the current inputs looks like.
CurrentInputs == Capture(q, since, until)

C4_Timers ==
  /\ Len(timers) <= 1
  /\ \A i \in DOMAIN timers :
        /\ timers[i].query = CurrentInputs
        /\ timers[i].remaining \in 0..DebounceDelay
  /\ last.op = "input" =>
        timers = <<[query |-> CurrentInputs, remaining |-> DebounceDelay,
                    restarted |-> last.flag]>>
  /\ last.op = "timerFire" =>
        /\ timers = <<>>
        /\ loads # <<>>
        /\ loads[Len(loads)].origin = "debounce"
        /\ loads[Len(loads)].stage = "summary"
        /\ loads[Len(loads)].query = CurrentInputs
  /\ \A i \in DOMAIN loads :
        /\ loads[i].stage = "list" <=> loads[i].params # Null
        /\ loads[i].stage = "list" =>
             loads[i].params[1] =
               [q |-> loads[i].query.q,
                sinceIso |-> IF loads[i].query.since = "" THEN Null
                             ELSE Some(loads[i].query.since \o "T00:00:00.000Z"),
                untilIso |-> IF loads[i].query.until = "" THEN Null
                             ELSE Some(loads[i].query.until \o "T00:00:00.000Z")]

\* C4 (amended): every input change cancels the pending timer and sets one of
\* 350 units for the new inputs, so at most one timer is pending and it carries
\* the last input state; when it fires exactly one load() starts with that
\* state, whose listDevices call (issued only once its summary request has
\* succeeded) carries that state; an input change leaves the loads in flight alone.
C4_Debounce ==
  /\ []C4_Timers
  /\ [][(q' # q \/ since' # since \/ until' # until) /\ last'.op = "input"
          => loads' = loads]_vars

\* C4 witness: a timer that had cancelled a pending one fired for edited inputs.
C4_Witness ==
  /\ last.op = "timerFire" /\ last.flag
  /\ loads # <<>> /\ loads[Len(loads)].query # Capture("", "", "")

\* C5 (as claimed): logout clears token, devices, selection, logs and active log
\* in one step, and while logged out nothing writes them back.
C5_LogoutIsFinal ==
  token = Null =>
    /\ getToken(storage) = Null
    /\ devices = <<>>
    /\ selected = Null
    /\ locationLogs = <<>>
    /\ selectedLocation = Null

\* C6 (as claimed): a fetch for the selected device that succeeds leaves the
\* log list equal to the response, and the first entry (or none) active.
C6_LoadedState ==
  (last.op = "logsOk" /\ last.flag) =>
    /\ locationLogs = last.logs
    /\ selectedLocation = IF last.logs # <<>> THEN Some(last.logs[1]) ELSE Null

\* The active location as the data model defines it.
ActiveLocation ==
  IF selectedLocation # Null
  THEN [lat |-> Some(selectedLocation[1].lat), lng |-> Some(selectedLocation[1].lng)]
  ELSE IF selected # Null /\ selected[1].lastLocation # Null
  THEN [lat |-> Some(selected[1].lastLocation[1].lat),
        lng |-> Some(selected[1].lastLocation[1].lng)]
  ELSE [lat |-> Null, lng |-> Null]

\* C7 (as claimed): the map is given the selected log's coordinates, else the
\* device's lastLocation, else none.
C7_ActiveLocation ==
  selected # Null =>
    /\ MapProps.lat = ActiveLocation.lat
    /\ MapProps.lng = ActiveLocation.lng

\* C8 (as claimed): a failed fetch sets the banner, empties the log list and
\* leaves no log active.
C8_FailedState ==
  last.op = "logsFail" =>
    /\ error # Null
    /\ locationLogs = <<>>
    /\ selectedLocation = Null

\* C9: Loading always ends, and a failed fetch ends with loadingLogs false and
\* the banner set (checked under FairLogsSpec).
C9_LoadingEnds ==
  /\ loadingLogs ~> ~loadingLogs
  /\ [](last.op = "logsFail" => (~loadingLogs /\ error # Null /\ locationLogs = <<>>))

\* C9 witness: a failed fetch has ended Loading.
C9_Witness == last.op = "logsFail" /\ ~loadingLogs /\ selected # Null

SetTokenOps == {"loginOk", "changePasswordOk", "logout"}

\* C10 (as claimed): after setToken(t), getToken() returns t, for every t.
C10_RoundTrip ==
  last.op \in SetTokenOps => getToken(storage) = last.tok

\* C10 (amended): after setToken(t) with t a non-empty token getToken() returns
\* t; after setToken(null) and after setToken("") it returns null; the slot
\* changes only by a setToken call, so every later read agrees; a reload
\* initialises the token state from the slot; only the one slot is stored.
C10_Session ==
  /\ [](last.op \in SetTokenOps =>
          getToken(storage) = IF Truthy(last.tok) THEN last.tok ELSE Null)
  /\ [](last.op = "reload" => token = getToken(storage))
  /\ [](DOMAIN storage = {StorageKey})
  /\ [][storage' # storage => last'.op \in SetTokenOps]_vars

\* C10 witness: a token written by setToken is read back after a reload.
C10_Witness == last.op = "reload" /\ token = Some("t2")

\* C17: a mounted map view has created exactly one map, one marker and one
\* popup, however often its mount effect ran; while it stays mounted nothing
\* more is created, so one marker shows at most one location.
C17_MountedView ==
  view # Null =>
    /\ view[1].mapRef # Null /\ view[1].markerRef # Null /\ view[1].popupRef # Null
    /\ view[1].maps = 1 /\ view[1].markers = 1 /\ view[1].popups = 1

C17_CreatedOnce ==
  /\ []C17_MountedView
  /\ [][view # Null /\ view' # Null =>
          /\ view'[1].maps = view[1].maps
          /\ view'[1].markers = view[1].markers
          /\ view'[1].popups = view[1].popups]_vars

\* C17 witness: the mount effect ran again on a view showing a location.
C17_Witness ==
  /\ last.op = "mapRerun"
  /\ view # Null /\ view[1].maps = 1 /\ view[1].markerRef[1].bound

\* The popup text for coordinates, timestamp and address.
ExpectedPopup(p) ==
  "<div><b>Location</b><br/>" \o ToString(p.lat[1]) \o ".000000, "
  \o ToString(p.lng[1]) \o ".000000"
  \o (IF p.timestamp \notin {Null, Some("")}
      THEN "<br/><small>locale(" \o p.timestamp[1] \o ")</small>" ELSE "")
  \o (IF p.address \notin {Null, Some("")}
      THEN "<br/><small><i>" \o p.address[1] \o "</i></small>" ELSE "")
  \o "</div>"

\* C18: after the effects have run for props p the adapter is in one of two
\* states. lat or lng absent: viewport [0,0] zoom 2, marker at [0,0], no popup
\* bound. Both present (0 included): marker at [lat,lng], viewport there at
\* zoom 15, popup rebuilt from p, bound and open.
C18_SyncedView ==
  view # Null =>
    LET v == view[1]
        p == v.deps[1]
    IN IF p.lat = Null \/ p.lng = Null
       THEN /\ v.mapRef[1] = [center |-> <<0, 0>>, zoom |-> 2]
            /\ v.markerRef[1] = [latlng |-> <<0, 0>>, bound |-> FALSE]
            /\ ~v.popupRef[1].open
       ELSE /\ v.mapRef[1] = [center |-> <<p.lat[1], p.lng[1]>>, zoom |-> 15]
            /\ v.markerRef[1] = [latlng |-> <<p.lat[1], p.lng[1]>>, bound |-> TRUE]
            /\ v.popupRef[1] = [content |-> ExpectedPopup(p), open |-> TRUE]

\* C18 witness: the location changed to one with latitude 0 and is shown.
C18_Witness ==
  /\ last.op = "mapRender" /\ last.flag
  /\ view # Null /\ view[1].deps[1].lat = Some(0) /\ view[1].deps[1].lng = Some(3)
  /\ view[1].markerRef[1].bound

\* The authorization headers of the requests a step sends: a load() started,
\* the listDevices call of a load() whose summary arrived, a getLocationLogs
\* call, a login or changePassword call (absent header: Null).
IssuedAuth ==
  {loads'[i].auth :
     i \in {j \in DOMAIN loads' :
              \/ last'.op = "reload"
              \/ j > Len(loads)
              \/ last'.op = "summaryOk" /\ loads'[j].stage # loads[j].stage}}
  \cup {fetches'[i].auth : i \in {j \in DOMAIN fetches' : j > Len(fetches)}}
  \cup {authReqs'[i].auth : i \in {j \in DOMAIN authReqs' : j > Len(authReqs)}}

\* Authorization: Bearer <token> for the token in the slot, none for an empty slot.
StoredHeader(store) ==
  IF store[StorageKey] = Null THEN Null
  ELSE Some("Bearer " \o store[StorageKey][1])

\* C11: every request carries Authorization: Bearer <token> exactly when a token
\* is stored at the moment it is sent, with the token stored at that moment.
C11_BearerHeader ==
  [][\A h \in IssuedAuth : h = StoredHeader(storage')]_vars

\* C11 witness: a load() sends its listDevices call with t2, the token a
\* password change stored after the load had started.
C11_Witness ==
  /\ last.op = "summaryOk"
  /\ \E i \in DOMAIN loads :
        loads[i].stage = "list" /\ loads[i].auth = Some("Bearer t2")

\* C12 (as claimed): after a successful changePassword the stored token is the
\* token the response carried.
C12_NewTokenStored ==
  last.op = "changePasswordOk" => getToken(storage) = last.tok

\* C12 (amended): after a successful changePassword that returned a non-empty
\* token, the slot and the token state hold it and the requests sent by that
\* step carry it; from then on, every step that does not write the slot sends
\* its requests with the stored token, so the replaced token is not sent again.
\* An empty token returned empties the slot.
C12_NewToken ==
  /\ [](last.op = "changePasswordOk" =>
          IF Truthy(last.tok)
          THEN getToken(storage) = last.tok /\ token = last.tok
          ELSE getToken(storage) = Null)
  /\ [][last'.op = "changePasswordOk" /\ Truthy(last'.tok) =>
          \A h \in IssuedAuth : h = Some("Bearer " \o last'.tok[1])]_vars
  /\ [][storage' = storage =>
          \A h \in IssuedAuth : h = StoredHeader(storage)]_vars

\* C12 witness: the change resolved while a load started under the old token
\* was waiting for its summary.
C12_Witness ==
  /\ last.op = "changePasswordOk" /\ last.tok = Some("t2")
  /\ \E i \in DOMAIN loads : loads[i].auth = Some("Bearer t1")

\* C13 (as claimed): for a non-success response request fails with the body's
\* error field when it has one, and with HTTP <status> when the field is
\* absent (or an empty string), the body is empty or the body is not
\* parseable; for a success response with an empty body it resolves with no
\* payload.
C13_ErrorMessage ==
  last.res # Null =>
    LET res == last.res[1].response
        out == last.res[1].outcome
        field == IF res.text = "{\"error\":\"denied\"}" THEN Some("denied") ELSE Null
    IN /\ res.status \notin 200..299 =>
            /\ out.rejected
            /\ out.message = IF field # Null THEN field[1]
                             ELSE "HTTP " \o ToString(res.status)
       /\ (res.status \in 200..299 /\ res.text = "") =>
            (~out.rejected /\ out.data = Null)

\* C14 (as claimed): whichever operation a failed request belongs to (login,
\* changePassword, the initial load, a debounced load, getLocationLogs), the
\* failure sets the error banner.
C14_ErrorsSurface ==
  last.op \in {"loginFail", "changePasswordFail", "loadFail", "logsFail"} =>
    error # Null

\* C15: a step sends a getLocationLogs request exactly when it changes the
\* selected device id to a device, and then exactly one, for that device; no
\* other step sends one (selection cleared, same device selected again, device
\* list refreshed, logout, reload).
C15_FetchOnSelect ==
  [][LET old == IF selected = Null THEN "" ELSE selected[1].deviceId
         new == IF selected' = Null THEN "" ELSE selected'[1].deviceId
     IN IF new # "" /\ new # old
        THEN /\ Len(fetches') = Len(fetches) + 1
             /\ SubSeq(fetches', 1, Len(fetches)) = fetches
             /\ fetches'[Len(fetches')].deviceId = new
        ELSE /\ Len(fetches') <= Len(fetches)
             /\ Len(fetches') = Len(fetches) => fetches' = fetches]_vars

\* C15 witness: the selected device was clicked again while its request was in
\* flight, and there is still that one request.
C15_Witness ==
  /\ last.op = "select" /\ ~last.flag
  /\ selected # Null
  /\ Len(fetches) = 1 /\ fetches[1].deviceId = selected[1].deviceId

\* C16: choosing an entry of the log list changes only the active log, to that
\* entry: token, banner, device list, selected device, log list and loading
\* flag stay as they are and no request or timer is started.
C16_ClickLogFrame ==
  [][last'.op = "clickLog" =>
       /\ \E k \in DOMAIN locationLogs : selectedLocation' = Some(locationLogs[k])
       /\ UNCHANGED <<storage, token, error, summary, q, since, until, devices,
                      selected, locationLogs, loadingLogs, loads, fetches,
                      authReqs, timers>>]_vars

\* C16 witness: the second entry was chosen in place of the auto-selected first.
C16_Witness ==
  /\ last.op = "clickLog"
  /\ locationLogs = <<A1, A2>> /\ selectedLocation = Some(A2)

\* C19 (as claimed): an active log is always an entry of the current log list.
C19_ActiveLogInList ==
  selectedLocation # Null =>
    \E k \in DOMAIN locationLogs : locationLogs[k] = selectedLocation[1]

\* The record the map's values are taken from.
SourceRecord ==
  IF selectedLocation # Null
  THEN [lat |-> Some(selectedLocation[1].lat), lng |-> Some(selectedLocation[1].lng),
        timestamp |-> Some(selectedLocation[1].timestamp),
        address |-> selectedLocation[1].address]
  ELSE IF selected # Null /\ selected[1].lastLocation # Null
  THEN [lat |-> Some(selected[1].lastLocation[1].lat),
        lng |-> Some(selected[1].lastLocation[1].lng),
        timestamp |-> selected[1].lastLocation[1].timestamp,
        address |-> selected[1].lastLocation[1].address]
  ELSE [lat |-> Null, lng |-> Null, timestamp |-> Null, address |-> Null]

\* C20 (as claimed): lat, lng, timestamp and address given to the map all come
\* from one record: the selected log, else the device's lastLocation.
C20_OneSource ==
  selected # Null => MapProps = SourceRecord

\* C21 (as claimed): no summary, listDevices or getLocationLogs request is sent
\* while no token is stored; such a request is sent without an authorization
\* header, so none in flight lacks the header.
C21_NoRequestLoggedOut ==
  /\ \A i \in DOMAIN loads : loads[i].auth # Null
  /\ \A i \in DOMAIN fetches : fetches[i].auth # Null
  /\ last.op \in {"timerFire", "summaryOk"} => getToken(storage) # Null

\* C22: the step that handles a rejected login or changePassword request
\* leaves the stored token and the token state as they were and sets the banner.
C22_RejectedKeepsSession ==
  /\ [](last.op \in {"loginFail", "changePasswordFail"} => error # Null)
  /\ [][last'.op \in {"loginFail", "changePasswordFail"} =>
          /\ storage' = storage
          /\ token' = token
          /\ Len(authReqs') = Len(authReqs) - 1
          /\ loads' = loads]_vars

\* C22 witness: a password change was rejected and the session of t1 goes on.
C22_Witness ==
  /\ last.op = "changePasswordFail"
  /\ token = Some("t1") /\ getToken(storage) = Some("t1") /\ error # Null

====
